---- MODULE Spec2Model ----
(***************************************************************************)
(* scripts/fetch-prs.py: one run of the PR report generator.               *)
(*                                                                         *)
(* The run is main(): read GITHUB_TOKEN, compute the cutoff, walk the      *)
(* cursor-paginated pull-request listing through fetch_graphql, keep the   *)
(* merged-or-open pull requests of the window, write them as CSV.          *)
(*                                                                         *)
(* The environment is the process environment (environ), the clock and the *)
(* --newer-than-days flag (their difference is since_date), and the        *)
(* GraphQL endpoint, which holds a listing of pull requests and answers    *)
(* one request at a time: with the page after the request's cursor, or     *)
(* with one of the failure shapes the code tests for.                      *)
(*                                                                         *)
(* JSON null / Python None is the record None; JSON objects are records,   *)
(* so that `"k" in obj` is  "k" \in DOMAIN obj.  An ISO-8601 timestamp     *)
(* string is the record [iso |-> t, tz |-> "Z"], t the instant it denotes  *)
(* in whole time units; datetime values are the instants themselves.       *)
(***************************************************************************)
EXTENDS Integers, Sequences, FiniteSets

\* Bounds of the model.
MaxPRs == 3      \* pull requests in the server's listing
MaxTime == 1     \* instants are 0..MaxTime
PageSize == 2    \* nodes per page (`first: 100` in the query, scaled down)

VARIABLES
    environ,          \* os.environ, restricted to GITHUB_TOKEN
    since_date,       \* datetime.now(utc) - timedelta(days=newer_than_days)
    listing,          \* the server's pull requests, in the order it serves them
    pc,               \* position of the run
    cursor,           \* fetch_prs: cursor
    should_continue,  \* fetch_prs: should_continue
    all_prs,          \* fetch_prs: all_prs
    result,           \* fetch_prs: result of the last fetch_graphql call
    idx,              \* position of the for loop in pull_requests["nodes"]
    requests,         \* every request handed to urlopen, in order
    received,         \* every node of every page fetch_prs has read, in order
    stdout,           \* lines written to sys.stdout
    stderr,           \* messages written to sys.stderr
    exit_code         \* <<>> while running, <<c>> once the process has ended

vars == <<environ, since_date, listing, pc, cursor, should_continue, all_prs,
          result, idx, requests, received, stdout, stderr, exit_code>>

None == [null |-> TRUE]

Min(a, b) == IF a < b THEN a ELSE b

-----------------------------------------------------------------------------
\* The environment

\* The process environment: GITHUB_TOKEN unset, set to the empty string, or set.
Environs == {[v \in {} |-> ""], [GITHUB_TOKEN |-> ""], [GITHUB_TOKEN |-> "ghp_token"]}

\* The (merged, state) pairs a pull request can have.
PRStatus == {[merged |-> TRUE, state |-> "MERGED"],
             [merged |-> FALSE, state |-> "OPEN"],
             [merged |-> FALSE, state |-> "CLOSED"]}

\* What the server knows of one pull request besides its identity.
PRAttrs == [merged : BOOLEAN, state : {"MERGED", "OPEN", "CLOSED"}, at : 0..MaxTime]

Listings ==
    UNION {[1..n -> {a \in PRAttrs : [merged |-> a.merged, state |-> a.state] \in PRStatus}]
           : n \in 0..MaxPRs}

\* The node the server returns for the i-th pull request of its listing.
Node(i) ==
    [title     |-> [pr |-> i],
     url       |-> [pull |-> i],
     merged    |-> listing[i].merged,
     mergedAt  |-> IF listing[i].merged THEN [iso |-> listing[i].at, tz |-> "Z"] ELSE None,
     updatedAt |-> [iso |-> listing[i].at, tz |-> "Z"],
     state     |-> listing[i].state]

\* The cursor after the i-th pull request, and the position a cursor stands for.
CursorAt(i) == [after |-> i]
Offset(c) == IF c = None THEN 0 ELSE c.after

\* pullRequests(first: PageSize, after: c): the page after cursor c.
PageAfter(c) ==
    LET from == Offset(c)
        n    == Min(PageSize, Len(listing) - from)
    IN  [pageInfo |-> [hasNextPage |-> from + n < Len(listing),
                       endCursor   |-> IF n > 0 THEN CursorAt(from + n) ELSE None],
         nodes    |-> [k \in 1..n |-> Node(from + k)]]

\* The bodies a 2xx response to a request with cursor c can carry.
OkData(c) == [repository |-> [pullRequests |-> PageAfter(c)]]
Responses(c) ==
    {[data |-> OkData(c)],
     [errors |-> <<"NOT_FOUND">>],
     [errors |-> <<"RATE_LIMITED">>, data |-> OkData(c)],
     [errors |-> <<>>, data |-> OkData(c)],
     [message |-> "no data"],
     [data |-> None],
     [data |-> [viewer |-> None]],
     [data |-> [repository |-> None]]}

-----------------------------------------------------------------------------
\* Pure parts of the script

Query == "query($owner: String!, $repo: String!, $cursor: String)"

\* datetime.isoformat() of an aware UTC datetime
IsoFormat(d) == [iso |-> d, tz |-> "+00:00"]

\* datetime.fromisoformat(s.replace("Z", "+00:00"))
FromIsoFormat(s) == s.iso

\* os.environ.get("GITHUB_TOKEN")
Token == IF "GITHUB_TOKEN" \in DOMAIN environ THEN environ.GITHUB_TOKEN ELSE "None"

\* mutant: only the empty string is rejected (`if token == ""`)
TokenMissingEmptyOnly ==
    IF "GITHUB_TOKEN" \in DOMAIN environ THEN environ.GITHUB_TOKEN = "" ELSE FALSE

\* `not token`
TokenMissing == IF "GITHUB_TOKEN" \in DOMAIN environ THEN environ.GITHUB_TOKEN = "" ELSE TRUE

\* the variables of one request
Variables(c) ==
    [owner  |-> "NixOS",
     repo   |-> "nixpkgs",
     cursor |-> c,
     since  |-> IsoFormat(since_date)]

\* mutant: the errors list is tested for truth (`if result.get("errors")`)
HasErrorsTruthy(r) == IF "errors" \in DOMAIN r THEN r.errors # <<>> ELSE FALSE

\* `"errors" in result`
HasErrors(r) == "errors" \in DOMAIN r

\* result["data"]["repository"]: the lookup raises TypeError when data is None and
\* KeyError when data has no repository key
LookupRaises(r) ==
    IF "data" \notin DOMAIN r THEN FALSE
    ELSE IF r.data = None THEN TRUE
    ELSE "repository" \notin DOMAIN r.data

\* `"data" not in result or not result["data"]["repository"]`, when it evaluates
NotAccessible(r) ==
    IF "data" \notin DOMAIN r THEN TRUE
    ELSE IF LookupRaises(r) THEN FALSE
    ELSE r.data.repository = None

\* mutant: the cutoff instant itself is out of the window (`<=`)
OutOfWindowInclusive(updated_at, since) == updated_at <= since

\* `updated_at < since_date`
OutOfWindow(updated_at, since) == updated_at < since

\* `is_merged or is_open`
Retained(pr) == pr.merged \/ pr.state = "OPEN"

\* the dict appended for a retained node
Record(pr) ==
    [title   |-> pr.title,
     link    |-> pr.url,
     merged  |-> IF pr.merged THEN "true" ELSE "false",
     updated |-> pr.updatedAt]

\* mutant: all_prs.insert(0, rec)
PrependRecord(prs, rec) == <<rec>> \o prs

\* all_prs.append(rec)
AppendRecord(prs, rec) == Append(prs, rec)

\* mutant: hasNextPage is not consulted
ShouldFetchNextIgnoringPageInfo(page_info, cont) == cont

\* `page_info["hasNextPage"] and should_continue`
ShouldFetchNext(page_info, cont) == page_info.hasNextPage /\ cont

\* csv.DictWriter(fieldnames=["title", "link", "merged", "updated"])
Header == <<"title", "link", "merged", "updated">>
Row(rec) == <<rec.title, rec.link, rec.merged, rec.updated>>
Rows(prs) == [j \in 1..Len(prs) |-> Row(prs[j])]

\* the page of the response being processed
PullRequests == result.data.repository.pullRequests

-----------------------------------------------------------------------------
\* The run

Init ==
    /\ environ \in Environs
    /\ since_date \in 0..MaxTime
    /\ listing \in Listings
    /\ pc = "main"
    /\ cursor = None
    /\ should_continue = TRUE
    /\ all_prs = <<>>
    /\ result = None
    /\ idx = 1
    /\ requests = <<>>
    /\ received = <<>>
    /\ stdout = <<>>
    /\ stderr = <<>>
    /\ exit_code = <<>>

\* sys.exit(1) after a message on the error stream
Die(msg) ==
    /\ stderr' = Append(stderr, msg)
    /\ exit_code' = <<1>>
    /\ pc' = "exited"

\* main: GITHUB_TOKEN missing
MissingToken ==
    /\ pc = "main"
    /\ TokenMissing
    /\ Die("Error: GITHUB_TOKEN environment variable is required")
    /\ UNCHANGED <<environ, since_date, listing, cursor, should_continue, all_prs,
                   result, idx, requests, received, stdout>>

\* mutant: the header is written before the pull requests are fetched
MainFetchHeaderFirst ==
    /\ pc = "main"
    /\ ~TokenMissing
    /\ stdout' = Append(stdout, Header)
    /\ all_prs' = <<>>
    /\ cursor' = None
    /\ should_continue' = TRUE
    /\ pc' = "loop"
    /\ UNCHANGED <<environ, since_date, listing, result, idx, requests, received,
                   stderr, exit_code>>

\* main: token present, fetch_prs is entered
MainFetch ==
    /\ pc = "main"
    /\ ~TokenMissing
    /\ all_prs' = <<>>
    /\ cursor' = None
    /\ should_continue' = TRUE
    /\ pc' = "loop"
    /\ UNCHANGED <<environ, since_date, listing, result, idx, requests, received,
                   stdout, stderr, exit_code>>

\* fetch_prs: `while should_continue`; in the loop, fetch_graphql builds the
\* request and calls urlopen
SendRequest ==
    /\ pc = "loop"
    /\ IF should_continue
       THEN /\ requests' = Append(requests, [authorization |-> <<"Bearer", Token>>,
                                             query         |-> Query,
                                             variables     |-> Variables(cursor)])
            /\ pc' = "urlopen"
       ELSE /\ pc' = "return"
            /\ UNCHANGED requests
    /\ UNCHANGED <<environ, since_date, listing, cursor, should_continue, all_prs,
                   result, idx, received, stdout, stderr, exit_code>>

\* fetch_graphql: urlopen raises HTTPError
HTTPErrorExit ==
    /\ pc = "urlopen"
    /\ Die("Error fetching from GitHub API")
    /\ UNCHANGED <<environ, since_date, listing, cursor, should_continue, all_prs,
                   result, idx, requests, received, stdout>>

\* fetch_graphql: a 2xx response, its body parsed and returned
Respond ==
    /\ pc = "urlopen"
    /\ \E r \in Responses(requests[Len(requests)].variables.cursor) : result' = r
    /\ pc' = "check"
    /\ UNCHANGED <<environ, since_date, listing, cursor, should_continue, all_prs,
                   idx, requests, received, stdout, stderr, exit_code>>

\* fetch_prs: `if "errors" in result`
GraphQLErrors ==
    /\ pc = "check"
    /\ HasErrors(result)
    /\ Die("GraphQL errors")
    /\ UNCHANGED <<environ, since_date, listing, cursor, should_continue, all_prs,
                   result, idx, requests, received, stdout>>

\* fetch_prs: `if "data" not in result or not result["data"]["repository"]`
RepositoryNotAccessible ==
    /\ pc = "check"
    /\ ~HasErrors(result)
    /\ NotAccessible(result)
    /\ Die("Repository not accessible")
    /\ UNCHANGED <<environ, since_date, listing, cursor, should_continue, all_prs,
                   result, idx, requests, received, stdout>>

\* fetch_prs: result["data"]["repository"] raises TypeError (data is None) or
\* KeyError (no repository key); nothing catches it, the interpreter prints the
\* traceback and ends the process with status 1
UncaughtLookupError ==
    /\ pc = "check"
    /\ ~HasErrors(result)
    /\ LookupRaises(result)
    /\ Die(IF result.data = None THEN "Traceback: TypeError" ELSE "Traceback: KeyError")
    /\ UNCHANGED <<environ, since_date, listing, cursor, should_continue, all_prs,
                   result, idx, requests, received, stdout>>

\* fetch_prs: the page is read and the for loop entered
BeginPage ==
    /\ pc = "check"
    /\ ~HasErrors(result)
    /\ ~LookupRaises(result)
    /\ ~NotAccessible(result)
    /\ received' = received \o PullRequests.nodes
    /\ idx' = 1
    /\ pc' = IF PullRequests.nodes = <<>> THEN "paged" ELSE "for"
    /\ UNCHANGED <<environ, since_date, listing, cursor, should_continue, all_prs,
                   result, requests, stdout, stderr, exit_code>>

\* mutant: the out-of-window branch breaks without clearing should_continue
ForNodeBreakOnly ==
    /\ pc = "for"
    /\ LET pr == PullRequests.nodes[idx]
           updated_at == FromIsoFormat(pr.updatedAt)
       IN  IF OutOfWindow(updated_at, since_date)
           THEN /\ pc' = "paged"
                /\ UNCHANGED <<all_prs, idx, should_continue>>
           ELSE /\ all_prs' = IF Retained(pr) THEN AppendRecord(all_prs, Record(pr))
                                              ELSE all_prs
                /\ idx' = idx + 1
                /\ pc' = IF idx = Len(PullRequests.nodes) THEN "paged" ELSE "for"
                /\ UNCHANGED should_continue
    /\ UNCHANGED <<environ, since_date, listing, cursor, result, requests, received,
                   stdout, stderr, exit_code>>

\* fetch_prs: one iteration of `for pr in pull_requests["nodes"]`
ForNode ==
    /\ pc = "for"
    /\ LET pr == PullRequests.nodes[idx]
           updated_at == FromIsoFormat(pr.updatedAt)
       IN  IF OutOfWindow(updated_at, since_date)
           THEN /\ should_continue' = FALSE
                /\ pc' = "paged"
                /\ UNCHANGED <<all_prs, idx>>
           ELSE /\ all_prs' = IF Retained(pr) THEN AppendRecord(all_prs, Record(pr))
                                              ELSE all_prs
                /\ idx' = idx + 1
                /\ pc' = IF idx = Len(PullRequests.nodes) THEN "paged" ELSE "for"
                /\ UNCHANGED should_continue
    /\ UNCHANGED <<environ, since_date, listing, cursor, result, requests, received,
                   stdout, stderr, exit_code>>

\* fetch_prs: `if page_info["hasNextPage"] and should_continue` after the for loop
NextPage ==
    /\ pc = "paged"
    /\ IF ShouldFetchNext(PullRequests.pageInfo, should_continue)
       THEN /\ cursor' = PullRequests.pageInfo.endCursor
            /\ pc' = "loop"
       ELSE /\ pc' = "return"
            /\ UNCHANGED cursor
    /\ UNCHANGED <<environ, since_date, listing, should_continue, all_prs, result,
                   idx, requests, received, stdout, stderr, exit_code>>

\* mutant: the header is written only when there are records
WriteHeaderIfAny ==
    /\ pc = "return"
    /\ stdout' = IF all_prs = <<>> THEN stdout ELSE Append(stdout, Header)
    /\ pc' = "rows"
    /\ UNCHANGED <<environ, since_date, listing, cursor, should_continue, all_prs,
                   result, idx, requests, received, stderr, exit_code>>

\* main: writer.writeheader()
WriteHeader ==
    /\ pc = "return"
    /\ stdout' = Append(stdout, Header)
    /\ pc' = "rows"
    /\ UNCHANGED <<environ, since_date, listing, cursor, should_continue, all_prs,
                   result, idx, requests, received, stderr, exit_code>>

\* main: writer.writerows(prs), then main returns
WriteRows ==
    /\ pc = "rows"
    /\ stdout' = stdout \o Rows(all_prs)
    /\ exit_code' = <<0>>
    /\ pc' = "done"
    /\ UNCHANGED <<environ, since_date, listing, cursor, should_continue, all_prs,
                   result, idx, requests, received, stderr>>

Next ==
    \/ MissingToken
    \/ MainFetch
    \/ SendRequest
    \/ HTTPErrorExit
    \/ Respond
    \/ GraphQLErrors
    \/ RepositoryNotAccessible
    \/ UncaughtLookupError
    \/ BeginPage
    \/ ForNode
    \/ NextPage
    \/ WriteHeader
    \/ WriteRows

Spec == Init /\ [][Next]_vars

-----------------------------------------------------------------------------
\* Vocabulary of the properties, stated on the server's listing and on what the
\* process sent and wrote, not on the script's own operators.

\* the listing is in descending updatedAt order
Descending == \A i \in 1..(Len(listing) - 1) : listing[i].at >= listing[i + 1].at

\* the i-th pull request is in the window and merged or open
Qualifies(i) ==
    /\ listing[i].at >= since_date
    /\ listing[i].merged \/ listing[i].state = "OPEN"

\* the i-th pull request is strictly older than the cutoff
Old(i) == listing[i].at < since_date
HasOld == \E i \in 1..Len(listing) : Old(i)
FirstOld == CHOOSE i \in 1..Len(listing) : Old(i) /\ \A k \in 1..(i - 1) : ~Old(k)

\* the page (counted from 1) that carries the i-th pull request
PageOf(i) == ((i - 1) \div PageSize) + 1

\* the CSV row of the i-th pull request
RowOfPR(i) ==
    <<[pr |-> i], [pull |-> i], IF listing[i].merged THEN "true" ELSE "false",
      [iso |-> listing[i].at, tz |-> "Z"]>>

\* the CSV lines after the first
DataRows == IF stdout = <<>> THEN <<>> ELSE Tail(stdout)

\* record rec was built from node n
BuiltFrom(rec, n) ==
    /\ rec.title = n.title
    /\ rec.link = n.url
    /\ rec.updated = n.updatedAt
    /\ rec.merged = (IF n.merged THEN "true" ELSE "false")

RECURSIVE IsSubsequence(_, _)
IsSubsequence(recs, nodes) ==
    IF recs = <<>> THEN TRUE
    ELSE IF nodes = <<>> THEN FALSE
    ELSE IF BuiltFrom(Head(recs), Head(nodes)) THEN IsSubsequence(Tail(recs), Tail(nodes))
    ELSE IsSubsequence(recs, Tail(nodes))

\* the process has ended with a non-zero exit code
ExitedNonZero == pc = "exited" /\ exit_code # <<>> /\ exit_code[1] # 0

\* a response is on hand and is a page
OnPage == pc \in {"for", "paged"}

-----------------------------------------------------------------------------
\* C1 (window filter): when a run over a listing in descending updatedAt order ends
\* without error, the CSV data rows are exactly the pull requests with
\* updatedAt >= cutoff that are merged or OPEN, one row each; a closed unmerged or
\* older pull request has no row.
C1_WindowFilter ==
    (pc = "done" /\ Descending) =>
        /\ \A i \in 1..Len(listing) :
              Cardinality({j \in 1..Len(DataRows) : DataRows[j] = RowOfPR(i)})
                  = IF Qualifies(i) THEN 1 ELSE 0
        /\ \A j \in 1..Len(DataRows) : \E i \in 1..Len(listing) : DataRows[j] = RowOfPR(i)

C1_Witness ==
    /\ pc = "done"
    /\ Descending
    /\ Len(DataRows) >= 1
    /\ \E i \in 1..Len(listing) : Qualifies(i) /\ listing[i].at = since_date
    /\ \E i \in 1..Len(listing) : listing[i].at >= since_date /\ listing[i].state = "CLOSED"
    /\ \E i \in 1..Len(listing) : Old(i) /\ listing[i].state = "OPEN"

\* C2 (early stop): once fetch_prs has met the first pull request strictly older
\* than the cutoff it sends no further request, whatever hasNextPage says, and no
\* record is ever appended for that pull request or for a node listed after it.
\* (It holds for any order of the listing, so for the descending one.)
C2_EarlyStop ==
    /\ [](HasOld =>
            /\ Len(requests) <= PageOf(FirstOld)
            /\ \A j \in 1..Len(all_prs) : all_prs[j].title.pr < FirstOld)
    /\ [][~should_continue => (requests' = requests /\ all_prs' = all_prs)]_vars

C2_Witness ==
    /\ pc = "done"
    /\ ~should_continue
    /\ Descending
    /\ PullRequests.pageInfo.hasNextPage
    /\ idx < Len(PullRequests.nodes)
    /\ PullRequests.nodes[idx + 1].state = "OPEN"

\* C3 (all-or-nothing): whenever an error has been reported the process has ended
\* with a non-zero exit code and standard output is empty; the first write to
\* standard output happens only after the pagination loop has ended without error.
C3_AllOrNothing ==
    /\ stderr # <<>> => (ExitedNonZero /\ stdout = <<>>)
    /\ pc = "exited" => (ExitedNonZero /\ stderr # <<>> /\ stdout = <<>>)
    /\ stdout # <<>> => (pc \in {"rows", "done"} /\ stderr = <<>>)

C3_Witness ==
    /\ pc = "exited"
    /\ Len(requests) = 2
    /\ all_prs # <<>>
    /\ stdout = <<>>

\* C4 (fatal on missing token): with GITHUB_TOKEN unset no request is ever sent,
\* nothing is written to standard output, and the only step of the run reports an
\* error and ends the process with a non-zero exit code.
C4_MissingToken ==
    "GITHUB_TOKEN" \notin DOMAIN environ =>
        /\ requests = <<>>
        /\ stdout = <<>>
        /\ pc \in {"main", "exited"}
        /\ pc = "exited" => (ExitedNonZero /\ stderr # <<>>)

C4_Witness ==
    /\ "GITHUB_TOKEN" \notin DOMAIN environ
    /\ pc = "exited"
    /\ listing # <<>>

\* C5 (fatal on API error): a response with a top-level errors key makes the next
\* step report the errors and end the process with a non-zero exit code, without
\* reading a node of that response (valid data or not), without a further request
\* and without CSV output; nothing happens after the process has ended.
C5_FatalOnErrors ==
    [][/\ (pc = "check" /\ "errors" \in DOMAIN result) =>
            /\ pc' = "exited"
            /\ exit_code' = <<1>>
            /\ stderr' = Append(stderr, "GraphQL errors")
            /\ received' = received
            /\ all_prs' = all_prs
            /\ requests' = requests
            /\ stdout' = <<>>
       /\ pc # "exited"]_vars

C5_Witness ==
    /\ pc = "exited"
    /\ "errors" \in DOMAIN result
    /\ "data" \in DOMAIN result
    /\ Len(requests) = 2
    /\ all_prs # <<>>

\* C6 (repository inaccessible): for a response without errors whose repository
\* data is missing (no data key, data null, data without a repository key, or
\* repository null) the next step reports "Repository not accessible" and ends the
\* process with a non-zero exit code, without reading pullRequests.
MissingRepositoryData(r) ==
    IF "data" \notin DOMAIN r THEN TRUE
    ELSE IF r.data = None THEN TRUE
    ELSE IF "repository" \notin DOMAIN r.data THEN TRUE
    ELSE r.data.repository = None

C6_RepositoryInaccessible ==
    [][(pc = "check" /\ "errors" \notin DOMAIN result /\ MissingRepositoryData(result)) =>
            /\ stderr' = Append(stderr, "Repository not accessible")
            /\ pc' = "exited"
            /\ exit_code' # <<>>
            /\ exit_code'[1] # 0
            /\ received' = received]_vars

\* C7 (header always): a run that leaves the pagination loop without error writes
\* the header title,link,merged,updated as its first line, exactly once, and exits
\* with code 0; when no pull request qualifies the output is the header alone.
IsHeaderLine(line) ==
    IF line[3] = "merged" THEN line = <<"title", "link", "merged", "updated">> ELSE FALSE

C7_HeaderAlways ==
    /\ [](pc \in {"rows", "done"} =>
            /\ stdout # <<>>
            /\ IsHeaderLine(stdout[1])
            /\ Cardinality({j \in 1..Len(stdout) : IsHeaderLine(stdout[j])}) = 1)
    /\ [](pc = "done" =>
            /\ exit_code = <<0>>
            /\ (~\E i \in 1..Len(listing) : Qualifies(i)) => Len(stdout) = 1)
    /\ [][/\ pc = "return" => (pc' = "rows" /\ stderr' = <<>>)
          /\ pc = "rows" => (pc' = "done" /\ stderr' = <<>>)]_vars

C7_Witness ==
    /\ pc = "done"
    /\ Len(stdout) = 1
    /\ IsHeaderLine(stdout[1])
    /\ \E i \in 1..Len(listing) : listing[i].at >= since_date /\ listing[i].state = "CLOSED"
    /\ \E i \in 1..Len(listing) : Old(i)

\* C8 (request shape): every request carries the fixed query text and a variables
\* object whose keys are exactly owner, repo and cursor, owner and repo the same in
\* all requests of the run.
C8_RequestShape ==
    \A k \in 1..Len(requests) :
        /\ requests[k].query = Query
        /\ DOMAIN requests[k].variables = {"owner", "repo", "cursor"}
        /\ requests[k].variables.owner = requests[1].variables.owner
        /\ requests[k].variables.repo = requests[1].variables.repo

\* C9 (cursor protocol): the first request carries a null cursor; after a page has
\* been processed another request follows if and only if the walk is not finished
\* and the page reports hasNextPage, and it carries the endCursor of the response
\* just processed; requests are sent one at a time, from the loop head only.
C9_CursorProtocol ==
    /\ [](requests # <<>> => requests[1].variables.cursor = None)
    /\ [][/\ requests' # requests =>
                /\ pc = "loop" /\ pc' = "urlopen"
                /\ Len(requests') = Len(requests) + 1
                /\ SubSeq(requests', 1, Len(requests)) = requests
                /\ requests # <<>> =>
                      /\ should_continue
                      /\ result.data.repository.pullRequests.pageInfo.hasNextPage
                      /\ requests'[Len(requests')].variables.cursor
                            = result.data.repository.pullRequests.pageInfo.endCursor
          /\ pc = "loop" => requests' # requests
          /\ pc = "paged" =>
                /\ requests' = requests
                /\ IF should_continue
                      /\ result.data.repository.pullRequests.pageInfo.hasNextPage
                   THEN pc' = "loop"
                   ELSE pc' = "return"]_vars

C9_Witness ==
    /\ pc = "done"
    /\ Len(requests) = 2
    /\ requests[2].variables.cursor # None
    /\ should_continue

\* C10 (output order): the accumulated records are always a subsequence of the
\* nodes received so far, in the order served; records are only appended; over a
\* descending listing they are descending by updated; the CSV data rows are the
\* records in that order.
C10_OutputOrder ==
    /\ [](IsSubsequence(all_prs, received))
    /\ [](Descending =>
            \A j \in 1..Len(all_prs) : \A k \in j..Len(all_prs) :
                all_prs[j].updated.iso >= all_prs[k].updated.iso)
    /\ [](pc = "done" =>
            /\ Len(DataRows) = Len(all_prs)
            /\ \A j \in 1..Len(all_prs) :
                  DataRows[j] = <<all_prs[j].title, all_prs[j].link,
                                  all_prs[j].merged, all_prs[j].updated>>)
    /\ [][/\ Len(all_prs') >= Len(all_prs)
          /\ SubSeq(all_prs', 1, Len(all_prs)) = all_prs]_vars

C10_Witness ==
    /\ pc = "done"
    /\ Len(requests) = 2
    /\ Len(all_prs) >= 2
    /\ Len(received) > Len(all_prs)

====
